---- MODULE Spec2Model ----
(***************************************************************************)
(* alchemlyb.parsing.gmx: extraction of the reduced potentials u_nk and   *)
(* the gradients dH/dl from a GROMACS XVG file.                            *)
(*                                                                         *)
(* Text is modelled as a sequence of atoms.  An atom is a run of           *)
(* characters that the parser never looks inside: every character the      *)
(* code splits on, strips or searches for (space, quote, parentheses,      *)
(* comma, colon, '-', '=', '&', '#', '@', and the words 'legend',          *)
(* 'lambda', 'state', 'subtitle', 'label', 'xaxis', 'to', 'pV', 'Total',   *)
(* 'Potential', 'Energy') is an atom of its own, so Python's character     *)
(* level `in`, split, strip, replace and startswith become the same        *)
(* operations on sequences of atoms.  A line is such a sequence, a file    *)
(* (xvg) a sequence of lines.  Numbers in the file are the atoms "0" to    *)
(* "9"; float() and int() read them by value.                              *)
(***************************************************************************)
EXTENDS Integers, Sequences, FiniteSets, TLC

VARIABLES xvg, T, op, pc, st, df, tab, err

vars == <<xvg, T, op, pc, st, df, tab, err>>

(***************************************************************************)
(* Bounds of the explored inputs.                                          *)
(***************************************************************************)
MaxLambdas == 4
MaxTargets == 2
NRows == 2
MaxT == 2
MaxState == 1

(***************************************************************************)
(* Python string operations, on sequences of atoms.                        *)
(***************************************************************************)
SP == " "
QUOTE == "\""
Whitespace == {SP}

Last(s) == s[Len(s)]

Min(S) == CHOOSE m \in S : \A n \in S : m <= n

\* s[i:].startswith(n)
MatchAt(s, n, i) ==
    /\ i + Len(n) - 1 <= Len(s)
    /\ \A k \in 1..Len(n) : s[i + k - 1] = n[k]

\* Python: n in s
In(n, s) == \E i \in 1..Len(s) : MatchAt(s, n, i)

startswith(s, n) == MatchAt(s, n, 1)

\* Python: s.find(n, i), 0 when absent
FindFrom(s, n, i) ==
    LET hits == {j \in i..Len(s) : MatchAt(s, n, j)}
    IN IF hits = {} THEN 0 ELSE Min(hits)

RECURSIVE SplitFrom(_, _, _)
SplitFrom(s, sep, i) ==
    LET j == FindFrom(s, sep, i)
    IN IF j = 0 THEN << SubSeq(s, i, Len(s)) >>
       ELSE << SubSeq(s, i, j - 1) >> \o SplitFrom(s, sep, j + Len(sep))

\* Python: s.split(sep)
split(s, sep) == SplitFrom(s, sep, 1)

NonEmpty(w) == w # << >>

\* Python: s.split()
words(s) == SelectSeq(split(s, <<SP>>), NonEmpty)

RECURSIVE lstrip(_, _)
lstrip(s, chars) ==
    IF s # << >> /\ Head(s) \in chars THEN lstrip(Tail(s), chars) ELSE s

RECURSIVE rstrip(_, _)
rstrip(s, chars) ==
    IF s # << >> /\ Last(s) \in chars
    THEN rstrip(SubSeq(s, 1, Len(s) - 1), chars) ELSE s

\* Python: s.strip(chars)
strip(s, chars) == rstrip(lstrip(s, chars), chars)

NotQuote(a) == a # QUOTE

\* Python: s.replace('"', '')
unquote(s) == SelectSeq(s, NotQuote)

(***************************************************************************)
(* Numbers.  k_b is 8.3144621E-3 kJ/(mol K), kept as the integer number of *)
(* 1E-10 kJ/(mol K).  A float of the tables is the exact quotient          *)
(* num / den; beta = 1 / (k_b * T).                                        *)
(***************************************************************************)
k_b == 83144621

NumAtoms == <<"0", "1", "2", "3", "4", "5", "6", "7", "8", "9">>

IsNum(a) == \E i \in DOMAIN NumAtoms : NumAtoms[i] = a

NumOf(a) == (CHOOSE i \in DOMAIN NumAtoms : NumAtoms[i] = a) - 1

Quot(n, d) == [num |-> n, den |-> d]

Flt(x) == Quot(x, 1)

beta(temp) == Quot(1, k_b * temp)

\* beta * x for a raw value x of the file
Mul(b, x) == Quot(b.num * x, b.den)

Add(p, q) ==
    IF p.den = q.den THEN Quot(p.num + q.num, p.den)
    ELSE Quot(p.num * q.den + q.num * p.den, p.den * q.den)

(***************************************************************************)
(* Python values: floats, tuples (or lists) of floats, strings, and the    *)
(* list of lists the expanded-ensemble pass builds.                        *)
(***************************************************************************)
PyFloat(x) == [kind |-> "float", v |-> x, t |-> << >>, s |-> << >>, l |-> << >>]
PyTuple(t) == [kind |-> "tuple", v |-> 0, t |-> t, s |-> << >>, l |-> << >>]
PyStr(s) == [kind |-> "str", v |-> 0, t |-> << >>, s |-> s, l |-> << >>]
PyList(l) == [kind |-> "list", v |-> 0, t |-> << >>, s |-> << >>, l |-> l]
PyError == [kind |-> "error", v |-> 0, t |-> << >>, s |-> << >>, l |-> << >>]

\* float(text) and int(text): [ok, v]
py_float(text) ==
    LET t == strip(text, Whitespace)
    IN IF Len(t) = 1 /\ IsNum(t[1]) THEN [ok |-> TRUE, v |-> NumOf(t[1])]
       ELSE [ok |-> FALSE, v |-> 0]

IsNumItem(e) == Len(e) = 1 /\ IsNum(e[1])

NotSpace(a) == a # SP

\* eval(text) of a numeric literal: a number, a parenthesised number, or a
\* tuple of numbers; anything else raises.
py_eval(text) ==
    LET t == SelectSeq(text, NotSpace)
    IN IF Len(t) = 1 /\ IsNum(t[1]) THEN PyFloat(NumOf(t[1]))
       ELSE IF Len(t) >= 2 /\ t[1] = "(" /\ Last(t) = ")"
       THEN LET inner == SubSeq(t, 2, Len(t) - 1)
                items == split(inner, <<",">>)
                n == Len(items)
                elems == IF n >= 2 /\ items[n] = << >> THEN SubSeq(items, 1, n - 1) ELSE items
            IN IF inner = << >> THEN PyTuple(<< >>)
               ELSE IF \A i \in DOMAIN elems : IsNumItem(elems[i])
                    THEN IF n = 1 THEN PyFloat(NumOf(elems[1][1]))
                         ELSE PyTuple([i \in DOMAIN elems |-> NumOf(elems[i][1])])
                    ELSE PyError
       ELSE PyError

(***************************************************************************)
(* _extract_state: the sampled state, the names of the lambdas and the     *)
(* state vector.  `state` is None or an int.                               *)
(***************************************************************************)
None == [none |-> TRUE, v |-> 0]
Some(x) == [none |-> FALSE, v |-> x]

Raised(e) == [err |-> e, state |-> None, lambdas |-> << >>, statevec |-> PyError]

HasLambda(w) == In(<<"lambda">>, w)

\* [word.strip(')(,') for word in line.split() if 'lambda' in word]
lambda_words(line) ==
    LET ws == SelectSeq(words(line), HasLambda)
    IN [i \in DOMAIN ws |-> strip(ws[i], {")", "(", ","})]

IsSubtitleState(line) == In(<<"subtitle">>, line) /\ In(<<"state">>, line)
IsLambdaLegend(line) == In(<<"legend">>, line) /\ In(<<"lambda">>, line)
IsToLegend(line) == In(<<"legend">>, line) /\ In(<<SP, "to", SP>>, line)

\* [float(i) for i in line.strip().split(' to ')[-1].strip('"()').split(',')]
to_floats(line) ==
    LET items == split(strip(Last(split(strip(line, Whitespace), <<SP, "to", SP>>)),
                             {QUOTE, "(", ")"}), <<",">>)
    IN [i \in DOMAIN items |-> py_float(items[i])]

\* lines 190-197: the first line holding both 'subtitle' and 'state'
fixed_state_pass(line) ==
    LET n == py_float(split(split(line, <<"state">>)[2], <<":">>)[1])
        sv == py_eval(strip(Last(split(strip(line, Whitespace), <<SP, "=", SP>>)), {QUOTE}))
    IN IF ~n.ok THEN Raised("ValueError")
       ELSE IF sv.kind = "error" THEN Raised("SyntaxError")
       ELSE [err |-> "none", state |-> Some(n.v),
             lambdas |-> lambda_words(line), statevec |-> sv]

\* lines 201-209: expanded ensemble, every legend line
expanded_pass(f) ==
    LET ll == SelectSeq(f, IsLambdaLegend)
        tl == SelectSeq(f, IsToLegend)
        vecs == [i \in DOMAIN tl |-> to_floats(tl[i])]
    IN IF \E i \in DOMAIN vecs : \E j \in DOMAIN vecs[i] : ~vecs[i][j].ok
       THEN Raised("ValueError")
       ELSE [err |-> "none", state |-> None,
             lambdas |-> [i \in DOMAIN ll |-> lambda_words(ll[i])[1]],
             statevec |-> PyList([i \in DOMAIN vecs |-> [j \in DOMAIN vecs[i] |-> vecs[i][j].v]])]

_extract_state(f) ==
    LET hits == {i \in DOMAIN f : IsSubtitleState(f[i])}
    IN IF hits # {} THEN fixed_state_pass(f[Min(hits)]) ELSE expanded_pass(f)

(***************************************************************************)
(* _extract_legend: label (5th field) -> value (7th field) of every legend *)
(* line naming a lambda; a later line with the same label replaces the     *)
(* earlier value.  [err, keys, vals].                                      *)
(***************************************************************************)
\* line.split()[4]
legend_key(ws) == ws[5]

\* the value read from the wrong field: the series number of the legend
legend_value_of_series(ws) == py_float(strip(ws[2], {"s"}))

\* float(line.split()[6].strip('"'))
legend_value(ws) == py_float(strip(ws[7], {QUOTE}))

_extract_legend(f) ==
    LET ll == SelectSeq(f, IsLambdaLegend)
        short == {i \in DOMAIN ll : Len(words(ll[i])) < 7}
        val(i) == legend_value(words(ll[i]))
        bad == {i \in DOMAIN ll : i \in short \/ ~val(i).ok}
        key(i) == legend_key(words(ll[i]))
        firsts == SelectSeq([i \in DOMAIN ll |-> i],
                            LAMBDA i : \A h \in 1..(i - 1) : key(h) # key(i))
        lastOf(i) == CHOOSE h \in DOMAIN ll :
                        key(h) = key(i) /\ \A g \in DOMAIN ll : key(g) = key(i) => g <= h
    IN IF bad # {}
       THEN [err |-> IF Min(bad) \in short THEN "IndexError" ELSE "ValueError",
             keys |-> << >>, vals |-> << >>]
       ELSE [err |-> "none",
             keys |-> [j \in DOMAIN firsts |-> key(firsts[j])],
             vals |-> [j \in DOMAIN firsts |-> val(lastOf(firsts[j])).v]]

(***************************************************************************)
(* _extract_dataframe: one pass over the lines; the raw table is           *)
(* [cols, rows], the column names being texts.                             *)
(***************************************************************************)
NoFrame == [cols |-> << >>, rows |-> << >>]

\* the atoms whose first character is 's'
AtomsFrom_s == {"s", "subtitle", "state"}

\* line.startswith("@ s")
StartsAtS(line) == Len(line) >= 3 /\ line[1] = "@" /\ line[2] = SP /\ line[3] \in AtomsFrom_s

\* line.split("legend ")[-1].replace('"','').strip()
legend_name(line) == strip(unquote(Last(split(line, <<"legend", SP>>))), Whitespace)

\* the marker test never met
is_multiblock_unreached(line) == FALSE

\* line.startswith('&')
is_multiblock(line) == line[1] = "&"

RECURSIVE scan_lines(_, _, _, _, _)
scan_lines(f, i, xaxis, names, rows) ==
    IF i > Len(f) THEN [err |-> "none", xaxis |-> xaxis, names |-> names, rows |-> rows]
    ELSE
      LET line == strip(f[i], Whitespace)
          isAxis == In(<<"label">>, line) /\ In(<<"xaxis">>, line)
          parts == split(line, <<QUOTE>>)
          xaxis2 == IF isAxis /\ Len(parts) >= 2 THEN <<parts[Len(parts) - 1]>> ELSE xaxis
          names2 == IF StartsAtS(line) /\ ~In(<<"subtitle">>, line)
                    THEN Append(names, legend_name(line)) ELSE names
          toks == words(line)
          vals == [j \in DOMAIN toks |-> py_float(toks[j])]
      IN IF Len(line) = 0 THEN scan_lines(f, i + 1, xaxis, names, rows)
         ELSE IF isAxis /\ Len(parts) < 2
              THEN [err |-> "IndexError", xaxis |-> xaxis, names |-> names, rows |-> rows]
         ELSE IF line[1] \in {"#", "@"} THEN scan_lines(f, i + 1, xaxis2, names2, rows)
         ELSE IF is_multiblock(line)
              THEN [err |-> "NotImplementedError", xaxis |-> xaxis2, names |-> names2, rows |-> rows]
         ELSE IF \E j \in DOMAIN vals : ~vals[j].ok
              THEN [err |-> "ValueError", xaxis |-> xaxis2, names |-> names2, rows |-> rows]
         ELSE scan_lines(f, i + 1, xaxis2, names2,
                         Append(rows, [j \in DOMAIN vals |-> vals[j].v]))

\* pd.DataFrame(rows, columns=cols): every row as wide as the header
_extract_dataframe(f) ==
    LET r == scan_lines(f, 1, << >>, << >>, << >>)
        cols == r.xaxis \o r.names
    IN IF r.err # "none" THEN [err |-> r.err, df |-> NoFrame]
       ELSE IF r.xaxis = << >> THEN [err |-> "UnboundLocalError", df |-> NoFrame]
       ELSE IF \E k \in DOMAIN r.rows : Len(r.rows[k]) # Len(cols)
            THEN [err |-> "ValueError", df |-> NoFrame]
       ELSE [err |-> "none", df |-> [cols |-> cols, rows |-> r.rows]]

(***************************************************************************)
(* Tables.  A table has index levels (names, index) and data columns       *)
(* (cols, rows); labels are Python values, cells are quotients.            *)
(***************************************************************************)
NoTable == [names |-> << >>, index |-> << >>, cols |-> << >>, rows |-> << >>]

TIME == PyStr(<<"time">>)

Fail(e) == [err |-> e, tab |-> NoTable]

\* the positions 1..n that satisfy P, in order
Positions(n, P(_)) == SelectSeq([i \in 1..n |-> i], P)

\* df.iloc[:, ~df.columns.duplicated()]
drop_duplicates(d) ==
    LET keep == Positions(Len(d.cols), LAMBDA c : \A b \in 1..(c - 1) : d.cols[b] # d.cols[c])
    IN [cols |-> [j \in DOMAIN keep |-> d.cols[keep[j]]],
        rows |-> [r \in DOMAIN d.rows |-> [j \in DOMAIN keep |-> d.rows[r][keep[j]]]]]

\* [col for col in df.columns if (match in col)], as positions
cols_matching(d, match) == Positions(Len(d.cols), LAMBDA c : In(match, d.cols[c]))

h_col_match == <<"\\xD\\f{}H", SP, "\\xl\\f{}">>
pv_col_match == <<"pV">>
u_col_match == {<<"Total", SP, "Energy">>, <<"Potential", SP, "Energy">>}
THERMO == <<"Thermodynamic", SP, "state">>

\* frame[label] = values (one per row): replaces the column when the label
\* exists, appends it otherwise
assign(t, label, values) ==
    IF \E c \in DOMAIN t.cols : t.cols[c] = label
    THEN [t EXCEPT !.rows = [r \in DOMAIN t.rows |->
                [c \in DOMAIN t.cols |-> IF t.cols[c] = label THEN values[r] ELSE t.rows[r][c]]]]
    ELSE [t EXCEPT !.cols = Append(t.cols, label),
                   !.rows = [r \in DOMAIN t.rows |-> Append(t.rows[r], values[r])]]

\* frame.reset_index().set_index(newind)
reindex(t, newind) ==
    LET cols == t.names \o t.cols
        row(r) == t.index[r] \o t.rows[r]
        pos(label) == Min({c \in DOMAIN cols : cols[c] = label})
        rest == Positions(Len(cols), LAMBDA c : \A k \in DOMAIN newind : newind[k] # cols[c])
    IN IF \E k \in DOMAIN newind : \A c \in DOMAIN cols : cols[c] # newind[k]
       THEN Fail("KeyError")
       ELSE [err |-> "none",
             tab |-> [names |-> newind,
                      index |-> [r \in DOMAIN t.index |-> [k \in DOMAIN newind |-> row(r)[pos(newind[k])]]],
                      cols |-> [j \in DOMAIN rest |-> cols[rest[j]]],
                      rows |-> [r \in DOMAIN t.index |-> [j \in DOMAIN rest |-> row(r)[rest[j]]]]]]

(***************************************************************************)
(* extract_u_nk, lines 42-76: the reduced potentials, indexed by time.     *)
(***************************************************************************)
\* the pV term left out
u_k_value_without_pV(d, temp, c, pv_cols, u_cols, r) ==
    LET h == Mul(beta(temp), d.rows[r][c])
    IN IF u_cols # << >> THEN Add(h, Mul(beta(temp), d.rows[r][u_cols[1]])) ELSE h

\* lines 68-72: u_k = beta * dH (+ beta * pV) (+ beta * U) at row r
u_k_value(d, temp, c, pv_cols, u_cols, r) ==
    LET h == Mul(beta(temp), d.rows[r][c])
        hp == IF pv_cols # << >> THEN Add(h, Mul(beta(temp), d.rows[r][pv_cols[1]])) ELSE h
    IN IF u_cols # << >> THEN Add(hp, Mul(beta(temp), d.rows[r][u_cols[1]])) ELSE hp

u_nk_columns(raw, temp) ==
    LET d == drop_duplicates(raw)
        DHcols == cols_matching(d, h_col_match)
        pv_cols == cols_matching(d, pv_col_match)
        u_cols == Positions(Len(d.cols), LAMBDA c : \E m \in u_col_match : In(m, d.cols[c]))
        pieces(j) == split(d.cols[DHcols[j]], <<"to">>)
        u_col(j) == py_eval(pieces(j)[2])
        value(j, r) == u_k_value(d, temp, DHcols[j], pv_cols, u_cols, r)
        \* u_k is a dict: a key met again replaces the earlier values
        lastOf(j) == CHOOSE h \in DOMAIN DHcols :
                        u_col(h) = u_col(j) /\ \A g \in DOMAIN DHcols : u_col(g) = u_col(j) => g <= h
    IN IF \E j \in DOMAIN DHcols : Len(pieces(j)) < 2 THEN Fail("IndexError")
       ELSE IF \E j \in DOMAIN DHcols : u_col(j).kind = "error" THEN Fail("SyntaxError")
       ELSE [err |-> "none",
             tab |-> [names |-> <<TIME>>,
                      index |-> [r \in DOMAIN d.rows |-> <<Flt(d.rows[r][1])>>],
                      cols |-> [j \in DOMAIN DHcols |-> u_col(j)],
                      rows |-> [r \in DOMAIN d.rows |-> [j \in DOMAIN DHcols |-> value(lastOf(j), r)]]]]

(***************************************************************************)
(* extract_dHdl, lines 133-150: the gradients, indexed by time.            *)
(***************************************************************************)
RECURSIVE Flatten(_)
Flatten(ss) == IF ss = << >> THEN << >> ELSE Head(ss) \o Flatten(Tail(ss))

dHdl_columns(raw, lambdas, temp) ==
    LET \* dHcols: the names picked for each lambda, in order
        dHcols == Flatten([i \in DOMAIN lambdas |->
                      LET hit == cols_matching(raw, lambdas[i])
                      IN [j \in DOMAIN hit |-> raw.cols[hit[j]]]])
        \* df[dHcols]: every column carrying each picked name
        picked == Flatten([j \in DOMAIN dHcols |->
                      Positions(Len(raw.cols), LAMBDA c : raw.cols[c] = dHcols[j])])
        cols == [i \in DOMAIN lambdas |-> PyStr(split(lambdas[i], <<"-">>)[1])]
    IN IF Len(picked) # Len(cols) THEN Fail("ValueError")
       ELSE [err |-> "none",
             tab |-> [names |-> <<TIME>>,
                      index |-> [r \in DOMAIN raw.rows |-> <<Flt(raw.rows[r][1])>>],
                      cols |-> cols,
                      rows |-> [r \in DOMAIN raw.rows |->
                                  [j \in DOMAIN picked |-> Mul(beta(temp), raw.rows[r][picked[j]])]]]]

(***************************************************************************)
(* Lines 78-105 of extract_u_nk and 152-179 of extract_dHdl: one column    *)
(* per lambda for the state each row was sampled from, then the new index. *)
(***************************************************************************)
RECURSIVE assign_all(_, _, _, _)
assign_all(t, labels, column(_, _), i) ==
    IF i > Len(labels) THEN t
    ELSE assign_all(assign(t, PyStr(labels[i]), [r \in DOMAIN t.rows |-> column(i, r)]),
                    labels, column, i + 1)

Got(x) == [err |-> "none", v |-> x]
Throws(e) == [err |-> e, v |-> 0]

\* `not state`, which state 0 satisfies too
state_is_falsy(s) == s.state.none \/ s.state.v = 0

\* `state is None`
state_is_None(s) == s.state.none

\* the state of the row ignored: always the first state
thermo_component_of_first_state(statevec, t, i) ==
    IF statevec.kind = "list"
    THEN IF 1 > Len(statevec.l) \/ i > Len(statevec.l[1]) THEN Throws("IndexError")
         ELSE Got(statevec.l[1][i])
    ELSE Throws("TypeError")

\* statevec[int(t)][i], i counted from 1
thermo_component(statevec, t, i) ==
    IF statevec.kind = "list"
    THEN IF t + 1 > Len(statevec.l) \/ i > Len(statevec.l[t + 1]) THEN Throws("IndexError")
         ELSE Got(statevec.l[t + 1][i])
    ELSE IF statevec.kind = "tuple" /\ t + 1 > Len(statevec.t) THEN Throws("IndexError")
    ELSE Throws("TypeError")

\* the first component for every lambda
fixed_component_first(statevec, i) ==
    IF statevec.kind = "tuple"
    THEN IF i > Len(statevec.t) THEN Throws("IndexError") ELSE Got(statevec.t[1])
    ELSE Got(statevec.v)

\* try: statevec[i]  except TypeError: statevec
fixed_component(statevec, i) ==
    IF statevec.kind = "tuple"
    THEN IF i > Len(statevec.t) THEN Throws("IndexError") ELSE Got(statevec.t[i])
    ELSE Got(statevec.v)

\* the first exception of the loops `for i, l in enumerate(lambdas)` over the
\* rows, "none" when there is none
first_error(n, rows, cell(_, _)) ==
    LET bad == {x \in (1..n) \X rows : cell(x[1], x[2]).err # "none"}
        first == CHOOSE x \in bad : \A y \in bad : x[1] < y[1] \/ (x[1] = y[1] /\ x[2] <= y[2])
    IN IF bad = {} THEN "none" ELSE cell(first[1], first[2]).err

index_by_state(t, d, s, f) ==
    LET lambdas == s.lambdas
        statevec == s.statevec
        newind == <<TIME>> \o [i \in DOMAIN lambdas |-> PyStr(lambdas[i])]
        ts == {c \in DOMAIN d.cols : d.cols[c] = THERMO}
        legend == _extract_legend(f)
        thermoCell(i, r) == thermo_component(statevec, d.rows[r][Min(ts)], i)
        fixedCell(i, r) == fixed_component(statevec, i)
        fromThermo(i, r) == Flt(thermoCell(i, r).v)
        fromLegend(i, r) == Flt(legend.vals[i])
        fromFixed(i, r) == Flt(fixedCell(i, r).v)
        thermoErr == first_error(Len(lambdas), DOMAIN d.rows, thermoCell)
        \* a scalar is assigned whether or not the table has rows
        fixedErr == first_error(Len(lambdas), {1}, fixedCell)
    IN IF state_is_None(s)
       THEN IF ts # {}
            THEN \* with the label repeated the loop runs over column labels: int(label)
                 IF Cardinality(ts) > 1 /\ lambdas # << >> THEN Fail("ValueError")
                 ELSE IF thermoErr # "none" THEN Fail(thermoErr)
                 ELSE reindex(assign_all(t, lambdas, fromThermo, 1), newind)
            ELSE IF legend.err # "none" THEN Fail(legend.err)
                 ELSE reindex(assign_all(t, legend.keys, fromLegend, 1), newind)
       ELSE IF fixedErr # "none" THEN Fail(fixedErr)
            ELSE reindex(assign_all(t, lambdas, fromFixed, 1), newind)

(***************************************************************************)
(* The two public operations, as functions of the file and temperature.    *)
(***************************************************************************)
extract_u_nk(f, temp) ==
    LET s == _extract_state(f)
        d == _extract_dataframe(f)
        u == u_nk_columns(d.df, temp)
    IN IF s.err # "none" THEN Fail(s.err)
       ELSE IF d.err # "none" THEN Fail(d.err)
       ELSE IF u.err # "none" THEN Fail(u.err)
       ELSE index_by_state(u.tab, drop_duplicates(d.df), s, f)

extract_dHdl(f, temp) ==
    LET s == _extract_state(f)
        d == _extract_dataframe(f)
        g == dHdl_columns(d.df, s.lambdas, temp)
    IN IF s.err # "none" THEN Fail(s.err)
       ELSE IF d.err # "none" THEN Fail(d.err)
       ELSE IF g.err # "none" THEN Fail(g.err)
       ELSE index_by_state(g.tab, d.df, s, f)

(***************************************************************************)
(* The files explored: GROMACS dhdl.xvg files written out atom by atom,    *)
(* with the deviations the extractor has to cope with (no sampled state,   *)
(* a declared state vector of the wrong length or unparsable, missing or   *)
(* duplicated legends, a multi-block marker).  Every lambda is named once  *)
(* in the schedule.                                                        *)
(***************************************************************************)
FamilyNames == <<"fep", "coul", "vdw", "bonded", "restraint", "mass", "temperature">>

lambda_name(i) == <<FamilyNames[i], "-", "lambda">>

D(v) == NumAtoms[(v % 10) + 1]

RECURSIVE Join(_, _)
Join(texts, sep) ==
    IF texts = << >> THEN << >>
    ELSE IF Len(texts) = 1 THEN texts[1]
    ELSE texts[1] \o sep \o Join(Tail(texts), sep)

TupleText(vals) ==
    IF Len(vals) = 1 THEN <<"(", D(vals[1]), ",", ")">>
    ELSE <<"(">> \o Join([i \in DOMAIN vals |-> <<D(vals[i])>>], <<",", SP>>) \o <<")">>

DeclVal(i) == (2 * i + 1) % 10
TargetVal(j, i) == (3 * (j - 1) + i - 1) % 10

\* @ subtitle "T = 300 (K) \xl\f{} state 0: (fep-lambda, coul-lambda) = (3, 5)"
SubtitleLine(k, m) ==
    <<"@", SP, "subtitle", SP, QUOTE, "T", SP, "=", SP, "300", SP, "(", "K", ")", SP,
      "\\xl\\f{}", SP, "state", SP, "0", ":", SP>>
    \o (IF k = 1 THEN lambda_name(1)
        ELSE <<"(">> \o Join([i \in 1..k |-> lambda_name(i)], <<",", SP>>) \o <<")">>)
    \o <<SP, "=", SP>>
    \o (IF m < 0 THEN <<"(", D(DeclVal(1))>>
        ELSE IF m = 0 THEN <<D(DeclVal(1))>>
        ELSE TupleText([i \in 1..m |-> DeclVal(i)]))
    \o <<QUOTE>>

PlainSubtitle == <<"@", SP, "subtitle", SP, QUOTE, "T", SP, "=", SP, "300", SP, "(", "K", ")", QUOTE>>

EnergyName(kind) == <<kind, SP, "Energy", SP, "(", "kJ/mol", ")">>
PVName == <<"pV", SP, "(", "kJ/mol", ")">>
GradName(i) == <<"dH/d", "\\xl\\f{}", SP>> \o lambda_name(i) \o <<SP, "=", SP, D(i)>>
TargetName(j, ar) ==
    h_col_match \o <<SP, "to", SP>>
    \o (IF ar = 1 THEN <<D(TargetVal(j, 1))>> ELSE TupleText([i \in 1..ar |-> TargetVal(j, i)]))

ColumnNames(p) ==
    LET energy == IF p.energy = "none" THEN << >>
                  ELSE IF p.energy = "both" THEN <<EnergyName("Potential"), EnergyName("Total")>>
                  ELSE <<EnergyName(p.energy)>>
        base == (IF p.thermo THEN <<THERMO>> ELSE << >>)
                \o energy
                \o [i \in 1..p.g |-> GradName(i)]
                \o [j \in 1..p.nt |-> TargetName(j, p.ar)]
                \o (IF p.pv THEN <<PVName>> ELSE << >>)
        again == IF p.dup = "grad" /\ p.g > 0 THEN <<GradName(1)>>
                 ELSE IF p.dup = "dH" /\ p.nt > 0 THEN <<TargetName(1, p.ar)>>
                 ELSE IF p.dup = "pV" /\ p.pv THEN <<PVName>>
                 ELSE IF p.dup = "energy" /\ energy # << >> THEN <<energy[1]>>
                 ELSE << >>
    IN base \o again

LegendLine(j, name) == <<"@", SP, "s", D(j - 1), SP, "legend", SP, QUOTE>> \o name \o <<QUOTE>>

\* the value of row r in column c (column 1 is the time, the thermodynamic
\* state counts up with the rows)
RawValue(p, r, c) ==
    IF c = 1 THEN r - 1
    ELSE IF p.thermo /\ c = 2 THEN r - 1
    ELSE (r + c) % 10

DataLine(p, r, n) == Join([c \in 1..(n + 1) |-> <<D(RawValue(p, r, c))>>], <<SP>>)

BuildFile(p) ==
    LET names == ColumnNames(p)
        n == Len(names)
    IN << <<"#", SP, "gmx", SP, "energy">>,
          <<"@", SP, SP, "xaxis", SP, "label", SP, QUOTE, "Time", SP, "(", "ps", ")", QUOTE>>,
          IF p.sub.k = 0 THEN PlainSubtitle ELSE SubtitleLine(p.sub.k, p.sub.m) >>
       \o [j \in 1..n |-> LegendLine(j, names[j])]
       \o [r \in 1..(IF p.amp < 0 THEN NRows ELSE p.amp) |-> DataLine(p, r, n)]
       \o (IF p.amp < 0 THEN << >>
           ELSE << <<"&">> >> \o [r \in 1..(NRows - p.amp) |-> DataLine(p, p.amp + r, n)])

SubOptions ==
    {[k |-> 0, m |-> 0]}
    \cup {o \in [k : 1..MaxLambdas, m : (-1)..(MaxLambdas + 1)] :
            o.m \in {-1, 0, o.k - 1, o.k, o.k + 1}}

\* the metadata in all its forms
MetaFamily ==
    {p \in [sub : SubOptions, g : 0..MaxLambdas, thermo : BOOLEAN,
            nt : {0, MaxTargets}, ar : 1..MaxLambdas,
            energy : {"none"}, pv : {FALSE}, dup : {"none"}, amp : {-1}] :
        /\ p.nt = 0 => p.ar = 1
        /\ p.sub.k > 0 => /\ p.nt = MaxTargets
                          /\ p.ar = p.sub.k
                          /\ p.g \in {0, 1, p.sub.k, MaxLambdas}}

\* the optional columns in all combinations
CellFamily ==
    [sub : {[k |-> 1, m |-> 0]}, g : {1}, thermo : BOOLEAN,
     nt : 0..MaxTargets, ar : {1, 2},
     energy : {"none", "Total", "Potential", "both"}, pv : BOOLEAN,
     dup : {"none"}, amp : {-1}]

\* a repeated legend
DupFamily ==
    {p \in [sub : {[k |-> k, m |-> k] : k \in 0..MaxLambdas}, g : {1, 2}, thermo : BOOLEAN,
            nt : {MaxTargets}, ar : {1, 2},
            energy : {"Total"}, pv : {TRUE}, dup : {"grad", "dH", "pV", "energy"}, amp : {-1}] :
        p.dup = "grad" => p.sub.k > 0}

\* a multi-block marker among the rows
AmpFamily ==
    [sub : {[k |-> 0, m |-> 0], [k |-> 1, m |-> 0], [k |-> 2, m |-> 2]}, g : {1, 2},
     thermo : BOOLEAN, nt : {MaxTargets}, ar : {2},
     energy : {"none"}, pv : {TRUE}, dup : {"none"}, amp : 0..NRows]

Params == MetaFamily \cup CellFamily \cup DupFamily \cup AmpFamily

Files == {BuildFile(p) : p \in Params}

(***************************************************************************)
(* One call of extract_u_nk or extract_dHdl, statement by statement.       *)
(***************************************************************************)
NoState == Raised("none")

Init ==
    /\ xvg \in Files
    /\ T \in 1..MaxT
    /\ op \in {"u_nk", "dHdl"}
    /\ pc = "start"
    /\ st = NoState
    /\ df = NoFrame
    /\ tab = NoTable
    /\ err = "none"

\* state, lambdas, statevec = _extract_state(xvg)
CallExtractState ==
    /\ pc = "start"
    /\ st' = _extract_state(xvg)
    /\ err' = st'.err
    /\ pc' = IF st'.err = "none" THEN "state" ELSE "raised"
    /\ UNCHANGED <<xvg, T, op, df, tab>>

\* df = _extract_dataframe(xvg)
CallExtractDataframe ==
    /\ pc = "state"
    /\ LET d == _extract_dataframe(xvg)
       IN /\ df' = d.df
          /\ err' = d.err
          /\ pc' = IF d.err = "none" THEN "frame" ELSE "raised"
    /\ UNCHANGED <<xvg, T, op, st, tab>>

\* extract_u_nk, lines 42-76
AssembleUnk ==
    /\ pc = "frame" /\ op = "u_nk"
    /\ LET u == u_nk_columns(df, T)
       IN /\ tab' = u.tab
          /\ err' = u.err
          /\ pc' = IF u.err = "none" THEN "columns" ELSE "raised"
    /\ UNCHANGED <<xvg, T, op, st, df>>

\* extract_dHdl, lines 133-150
AssembleDHdl ==
    /\ pc = "frame" /\ op = "dHdl"
    /\ LET g == dHdl_columns(df, st.lambdas, T)
       IN /\ tab' = g.tab
          /\ err' = g.err
          /\ pc' = IF g.err = "none" THEN "columns" ELSE "raised"
    /\ UNCHANGED <<xvg, T, op, st, df>>

\* extract_u_nk, lines 78-109
IndexUnk ==
    /\ pc = "columns" /\ op = "u_nk"
    /\ LET r == index_by_state(tab, drop_duplicates(df), st, xvg)
       IN /\ tab' = r.tab
          /\ err' = r.err
          /\ pc' = IF r.err = "none" THEN "returned" ELSE "raised"
    /\ UNCHANGED <<xvg, T, op, st, df>>

\* extract_dHdl, lines 152-183
IndexDHdl ==
    /\ pc = "columns" /\ op = "dHdl"
    /\ LET r == index_by_state(tab, df, st, xvg)
       IN /\ tab' = r.tab
          /\ err' = r.err
          /\ pc' = IF r.err = "none" THEN "returned" ELSE "raised"
    /\ UNCHANGED <<xvg, T, op, st, df>>

Next ==
    \/ CallExtractState
    \/ CallExtractDataframe
    \/ AssembleUnk
    \/ AssembleDHdl
    \/ IndexUnk
    \/ IndexDHdl

Spec == Init /\ [][Next]_vars

(***************************************************************************)
(* Vocabulary of the properties.                                           *)
(***************************************************************************)
Ended == pc \in {"returned", "raised"}
Returned == pc = "returned"

Outcome(o, f, temp) == IF o = "u_nk" THEN extract_u_nk(f, temp) ELSE extract_dHdl(f, temp)

\* the file has a comment line with both 'subtitle' and 'state'
FixedStateFile(f) == \E i \in DOMAIN f : IsSubtitleState(f[i])

\* what that line declares after its last ' = '
DeclaredState(f) ==
    LET line == f[Min({i \in DOMAIN f : IsSubtitleState(f[i])})]
    IN py_eval(strip(Last(split(line, <<SP, "=", SP>>)), {QUOTE}))

\* the raw columns named 'Thermodynamic state'
ThermoCols == {c \in DOMAIN df.cols : df.cols[c] = THERMO}

IsComment(line) == line # << >> /\ line[1] \in {"#", "@"}
IsDataLine(line) == line # << >> /\ IsNum(line[1])
IsMarker(line) == line # << >> /\ line[1] = "&"
IsSeriesLegend(line) == Len(line) >= 3 /\ line[1] = "@" /\ line[3] = "s"

FirstNamed(c) == \A b \in 1..(c - 1) : df.cols[b] # df.cols[c]
NoRepeat(q) == \A a, b \in DOMAIN q : a # b => q[a] # q[b]

\* the file with the values of column `pos` replaced, row by row, by vals
WithColumn(f, pos, vals) ==
    LET rows == Positions(Len(f), LAMBDA i : IsDataLine(f[i]))
        rank(i) == CHOOSE r \in DOMAIN rows : rows[r] = i
        put(i) == LET toks == words(f[i])
                  IN Join([c \in DOMAIN toks |-> IF c = pos THEN <<D(vals[rank(i)])>> ELSE toks[c]],
                          <<SP>>)
    IN [i \in DOMAIN f |-> IF IsDataLine(f[i]) THEN put(i) ELSE f[i]]

\* the file without the legends that repeat an earlier name, and without
\* their data columns
Collapsed(f) ==
    LET leg == Positions(Len(f), LAMBDA i : IsSeriesLegend(f[i]))
        name(j) == legend_name(f[leg[j]])
        again == {j \in DOMAIN leg : \E h \in 1..(j - 1) : name(h) = name(j)}
        keepLine(i) == \A j \in again : leg[j] # i
        kept == Positions(Len(f), keepLine)
        cut(line) == LET toks == words(line)
                         keep == Positions(Len(toks), LAMBDA c : (c - 1) \notin again)
                     IN Join([k \in DOMAIN keep |-> toks[keep[k]]], <<SP>>)
    IN [k \in DOMAIN kept |-> IF IsDataLine(f[kept[k]]) THEN cut(f[kept[k]]) ELSE f[kept[k]]]

HasRepeatedLegend(f) == Len(Collapsed(f)) < Len(f)

(***************************************************************************)
(* C1.  Whenever extract_u_nk returns a table, it has one data column per  *)
(* energy-difference raw column (a repeated name counted once), keyed by   *)
(* the target state parsed from the text after ' to ', and each cell is    *)
(* (dH + pV + U) / (k_b T), pV being the first raw column whose name       *)
(* contains 'pV' and U the first whose name contains 'Total Energy' or     *)
(* 'Potential Energy', each left out when there is no such column.         *)
(***************************************************************************)
C1_ReducedPotential ==
    (Returned /\ op = "u_nk") =>
        LET dh == Positions(Len(df.cols), LAMBDA c : FirstNamed(c) /\ In(h_col_match, df.cols[c]))
            pvs == {c \in DOMAIN df.cols : In(<<"pV">>, df.cols[c])}
            us == {c \in DOMAIN df.cols :
                      In(<<"Total", SP, "Energy">>, df.cols[c]) \/ In(<<"Potential", SP, "Energy">>, df.cols[c])}
            pV(r) == IF pvs = {} THEN 0 ELSE df.rows[r][Min(pvs)]
            U(r) == IF us = {} THEN 0 ELSE df.rows[r][Min(us)]
        IN /\ Len(tab.cols) = Len(dh)
           /\ Len(tab.rows) = Len(df.rows)
           /\ \A j \in DOMAIN dh :
                /\ tab.cols[j] = py_eval(Last(split(df.cols[dh[j]], <<SP, "to", SP>>)))
                /\ \A r \in DOMAIN df.rows :
                     tab.rows[r][j] = Quot(df.rows[r][dh[j]] + pV(r) + U(r), k_b * T)

C1_Witness ==
    /\ Returned /\ op = "u_nk" /\ T > 1
    /\ Len(tab.cols) = 2
    /\ \E c \in DOMAIN df.cols : In(<<"pV">>, df.cols[c])
    /\ \E c, e \in DOMAIN df.cols :
          c < e /\ In(<<"Potential", SP, "Energy">>, df.cols[c]) /\ In(<<"Total", SP, "Energy">>, df.cols[e])

(***************************************************************************)
(* C2.  Whenever extract_dHdl returns a table, it has len(lambdas) data    *)
(* columns, and the j-th one is, row by row, 1 / (k_b T) times a raw       *)
(* column whose name contains the j-th lambda name.                        *)
(***************************************************************************)
C2_GradientColumns ==
    (Returned /\ op = "dHdl") =>
        /\ Len(tab.cols) = Len(st.lambdas)
        /\ \A j \in DOMAIN st.lambdas :
              \E c \in DOMAIN df.cols :
                  /\ In(st.lambdas[j], df.cols[c])
                  /\ \A r \in DOMAIN df.rows : tab.rows[r][j] = Quot(df.rows[r][c], k_b * T)

(***************************************************************************)
(* C3.  For a fixed-state file, every row of a returned table carries, at  *)
(* the index level of the i-th lambda, the i-th component of the state     *)
(* declared on the subtitle line (the declared number itself when it is a  *)
(* scalar): the same for all rows.                                         *)
(***************************************************************************)
C3_FixedStateIndex ==
    (Returned /\ FixedStateFile(xvg)) =>
        LET decl == DeclaredState(xvg)
            names == lambda_words(xvg[Min({i \in DOMAIN xvg : IsSubtitleState(xvg[i])})])
        IN /\ tab.names = <<TIME>> \o [i \in DOMAIN names |-> PyStr(names[i])]
           /\ Len(tab.index) = Len(df.rows)
           /\ \A r \in DOMAIN tab.index : \A i \in DOMAIN names :
                 tab.index[r][i + 1] = Flt(IF decl.kind = "tuple" THEN decl.t[i] ELSE decl.v)

C3_Witness ==
    /\ Returned /\ FixedStateFile(xvg)
    /\ DeclaredState(xvg).kind = "tuple"
    /\ Len(st.lambdas) = 2
    /\ Len(tab.index) = NRows
    /\ tab.index[1][2] # tab.index[1][3]

(***************************************************************************)
(* C4.  For an expanded-ensemble file (no subtitle/state line) with a      *)
(* 'Thermodynamic state' column, the index level of the i-th lambda at row *)
(* r of a returned table is component i of the tuple of state k, k being   *)
(* the value of that column at row r and the tuple the one on the k-th     *)
(* legend line containing ' to ', in file order.                           *)
(***************************************************************************)
C4_ThermodynamicStateIndex ==
    (Returned /\ ~FixedStateFile(xvg) /\ ThermoCols # {}) =>
        LET toLines == SelectSeq(xvg, IsToLegend)
            k(r) == df.rows[r][Min(ThermoCols)]
        IN /\ Len(tab.index) = Len(df.rows)
           /\ tab.names = <<TIME>> \o [i \in DOMAIN st.lambdas |-> PyStr(st.lambdas[i])]
           /\ \A r \in DOMAIN tab.index : \A i \in DOMAIN st.lambdas :
                 tab.index[r][i + 1] = Flt(to_floats(toLines[k(r) + 1])[i].v)

C4_Witness ==
    /\ Returned /\ ~FixedStateFile(xvg) /\ ThermoCols # {}
    /\ Len(st.lambdas) = 2
    /\ df.rows[1][Min(ThermoCols)] = 0 /\ df.rows[2][Min(ThermoCols)] = 1
    /\ tab.index[1][2] # tab.index[2][2]

(***************************************************************************)
(* C5.  A file with a line beginning with '&' among its data, its metadata *)
(* being well-formed, makes both operations end with NotImplementedError   *)
(* and no table, whatever rows precede or follow the marker.               *)
(***************************************************************************)
C5_MultiBlockRaises ==
    (Ended /\ st.err = "none" /\ \E i \in DOMAIN xvg : IsMarker(xvg[i])) =>
        /\ pc = "raised"
        /\ err = "NotImplementedError"
        /\ tab = NoTable

C5_Witness ==
    /\ Ended /\ st.err = "none"
    /\ \E h, i, j \in DOMAIN xvg :
          h < i /\ i < j /\ IsDataLine(xvg[h]) /\ IsMarker(xvg[i]) /\ IsDataLine(xvg[j])

(***************************************************************************)
(* C6.  A file whose legend repeats a column name, and from which both     *)
(* operations return a table once the repeats are removed, still makes     *)
(* them return a table, in which no column appears twice.                  *)
(***************************************************************************)
C6_DuplicatesCollapsed ==
    (Ended /\ HasRepeatedLegend(xvg) /\ Outcome(op, Collapsed(xvg), T).err = "none") =>
        /\ Returned
        /\ NoRepeat(tab.cols)

(***************************************************************************)
(* C7.  A file without a subtitle/state line and without a legend line     *)
(* naming a lambda, or whose declared state is not a literal, makes both   *)
(* operations end with an error: no table is returned.                     *)
(***************************************************************************)
C7_MissingMetadataRaises ==
    LET missing == ~FixedStateFile(xvg) /\ ~\E i \in DOMAIN xvg : IsLambdaLegend(xvg[i])
        unparsable == FixedStateFile(xvg) /\ DeclaredState(xvg).kind = "error"
    IN (Ended /\ (missing \/ unparsable)) => pc = "raised"

(***************************************************************************)
(* C8.  In a fixed-state file that also has a 'Thermodynamic state'        *)
(* column the subtitle wins: replacing the values of that column by any    *)
(* others changes neither the outcome nor the row index of either          *)
(* operation.                                                              *)
(***************************************************************************)
C8_SubtitleWins ==
    (Ended /\ FixedStateFile(xvg) /\ ThermoCols # {}) =>
        \A vals \in [DOMAIN df.rows -> 0..MaxState] :
            LET other == Outcome(op, WithColumn(xvg, Min(ThermoCols), vals), T)
            IN /\ other.err = err
               /\ other.tab.names = tab.names
               /\ other.tab.index = tab.index

C8_Witness ==
    /\ Returned /\ FixedStateFile(xvg) /\ ThermoCols # {}
    /\ Len(st.lambdas) >= 1
    /\ Len(df.rows) = NRows
    /\ \E vals \in [DOMAIN df.rows -> 0..MaxState] :
          WithColumn(xvg, Min(ThermoCols), vals) # xvg

(***************************************************************************)
(* C9.  For a file with neither a subtitle/state line nor a                *)
(* 'Thermodynamic state' column, a returned table is indexed by time and   *)
(* the lambdas of the schedule; each legend line naming a lambda gives its *)
(* label (5th field) as an index level holding its value (7th field,       *)
(* quotes stripped) on every row, and these labels are the lambdas of the  *)
(* schedule.                                                               *)
(***************************************************************************)
C9_LegendIndex ==
    (Returned /\ ~FixedStateFile(xvg) /\ ThermoCols = {}) =>
        LET ll == SelectSeq(xvg, IsLambdaLegend)
            label(n) == words(ll[n])[5]
            value(n) == NumOf(strip(words(ll[n])[7], {QUOTE})[1])
        IN /\ tab.names = <<TIME>> \o [i \in DOMAIN st.lambdas |-> PyStr(st.lambdas[i])]
           /\ {label(n) : n \in DOMAIN ll} = {st.lambdas[i] : i \in DOMAIN st.lambdas}
           /\ Len(tab.index) = Len(df.rows)
           /\ \A n \in DOMAIN ll :
                 \E k \in DOMAIN tab.names :
                     /\ tab.names[k] = PyStr(label(n))
                     /\ \A r \in DOMAIN tab.index : tab.index[r][k] = Flt(value(n))

C9_Witness ==
    /\ Returned /\ ~FixedStateFile(xvg) /\ ThermoCols = {}
    /\ Len(st.lambdas) = 2
    /\ Len(tab.index) = NRows
    /\ tab.index[1][2] # tab.index[1][3]

(***************************************************************************)
(* C10.  Every state vector used for a returned table has tuples as long   *)
(* as the lambda schedule: a fixed-state file declaring a tuple with more  *)
(* or fewer components than lambdas ends in an error.                      *)
(***************************************************************************)
C10_TupleLengthEnforced ==
    Returned =>
        /\ st.statevec.kind = "tuple" => Len(st.statevec.t) = Len(st.lambdas)
        /\ (st.statevec.kind = "list" /\ ThermoCols # {} /\ st.lambdas # << >>) =>
              \A r \in DOMAIN df.rows :
                  Len(st.statevec.l[df.rows[r][Min(ThermoCols)] + 1]) = Len(st.lambdas)

====
